---------------------------- MODULE Spec2Model ----------------------------
(***************************************************************************)
(* The HTTP request parser of the repository (parseHTTPRequest over a      *)
(* bufio.Reader, src/unnamed/part_000:833-895) and the bounded body reader *)
(* it returns (LimitedBodyReader, part_000:814-832), driven by a transport *)
(* that delivers a client's byte stream in fragments.                      *)
(*                                                                         *)
(* Each transport read obtains one byte or as many bytes as fit, so a      *)
(* behaviour is one fragmentation of the stream.                           *)
(* Spec is that parser on one connection, with a caller reading the body.  *)
(* SpecServers is the programs of the repository as servers: the accept    *)
(* loop and the handler goroutines of two connections, interleaved.        *)
(* SpecMessenger is the duplex messenger of an upgraded connection, which  *)
(* the sources describe (part_000:738-756) and do not implement: its tasks *)
(* and channels follow the specification of the repository.                *)
(* Bytes are one-character strings; a byte string is a sequence of them.   *)
(***************************************************************************)
EXTENDS Integers, Sequences, FiniteSets, TLC

CR  == "\r"
LF  == "\n"
TAB == "\t"
FF  == "\f"

Min(S) == CHOOSE x \in S : \A y \in S : x <= y
Max(S) == CHOOSE x \in S : \A y \in S : x >= y

-----------------------------------------------------------------------------
(* Go library functions the parser calls, on byte strings.                 *)

\* unicode.IsSpace restricted to ASCII: the bytes strings.TrimSpace strips.
IsSpace(ch) == ch \in {" ", TAB, LF, CR, FF}

\* strings.TrimSpace(s): s without its leading and trailing white space.
TrimSpace(s) ==
    LET keep == {i \in 1..Len(s) : ~IsSpace(s[i])}
    IN  IF keep = {} THEN <<>> ELSE SubSeq(s, Min(keep), Max(keep))

UpperCase == <<"A", "B", "C", "D", "E", "F", "G", "H", "I", "J", "K", "L", "M",
               "N", "O", "P", "Q", "R", "S", "T", "U", "V", "W", "X", "Y", "Z">>
LowerCase == <<"a", "b", "c", "d", "e", "f", "g", "h", "i", "j", "k", "l", "m",
               "n", "o", "p", "q", "r", "s", "t", "u", "v", "w", "x", "y", "z">>

LowerOf(ch) ==
    IF \E k \in 1..Len(UpperCase) : UpperCase[k] = ch
    THEN LowerCase[CHOOSE k \in 1..Len(UpperCase) : UpperCase[k] = ch]
    ELSE ch

\* strings.ToLower(s).
ToLower(s) == [i \in 1..Len(s) |-> LowerOf(s[i])]

\* Index of the first occurrence of byte sep in s, 0 when there is none.
IndexByte(s, sep) ==
    LET at == {i \in 1..Len(s) : s[i] = sep}
    IN  IF at = {} THEN 0 ELSE Min(at)

\* strings.Split(s, sep) for a one-byte separator: every separator splits.
RECURSIVE Split(_, _)
Split(s, sep) ==
    LET i == IndexByte(s, sep)
    IN  IF i = 0 THEN <<s>>
        ELSE <<SubSeq(s, 1, i - 1)>> \o Split(SubSeq(s, i + 1, Len(s)), sep)

\* Faulty variant of SplitN2: split at the last separator.
SplitN2_AtLast(s, sep) ==
    LET at == {i \in 1..Len(s) : s[i] = sep}
    IN  IF at = {} THEN <<s>>
        ELSE <<SubSeq(s, 1, Max(at) - 1), SubSeq(s, Max(at) + 1, Len(s))>>

\* strings.SplitN(s, sep, 2): split at the first separator only.
SplitN2(s, sep) ==
    LET i == IndexByte(s, sep)
    IN  IF i = 0 THEN <<s>>
        ELSE <<SubSeq(s, 1, i - 1), SubSeq(s, i + 1, Len(s))>>

Digits == <<"0", "1", "2", "3", "4", "5", "6", "7", "8", "9">>
IsDigit(ch) == \E k \in 1..Len(Digits) : Digits[k] = ch
DigitVal(ch) == (CHOOSE k \in 1..Len(Digits) : Digits[k] = ch) - 1

RECURSIVE DecimalValue(_)
DecimalValue(s) ==
    IF s = <<>> THEN 0
    ELSE 10 * DecimalValue(SubSeq(s, 1, Len(s) - 1)) + DigitVal(s[Len(s)])

\* strconv.Atoi(s): an optional sign, then one or more decimal digits.
Atoi(s) ==
    LET signed == s # <<>> /\ s[1] \in {"-", "+"}
        digits == IF signed THEN Tail(s) ELSE s
    IN  IF digits = <<>> \/ \E i \in 1..Len(digits) : ~IsDigit(digits[i])
        THEN [val |-> 0, err |-> TRUE]
        ELSE [val |-> IF signed /\ s[1] = "-" THEN 0 - DecimalValue(digits)
                      ELSE DecimalValue(digits),
              err |-> FALSE]

-----------------------------------------------------------------------------
(* The parser: one iteration of the loop of parseHTTPRequest.              *)

\* The cap on the bytes of the header block (part_000:850).
HeaderCap == 8192

\* Size of the buffer of bufio.NewReader(conn) (part_000:912).
BufSize == 4096

GET  == <<"G", "E", "T">>
HEAD == <<"H", "E", "A", "D">>
CRLF == <<CR, LF>>
ContentLengthName ==
    <<"c", "o", "n", "t", "e", "n", "t", "-", "l", "e", "n", "g", "t", "h">>

\* HTTPReq{}: the zero value of the request type. Body is "nil" or
\* "limited" (a pointer to the LimitedBodyReader of the call).
ZeroReq == [Method |-> <<>>, URI |-> <<>>, Version |-> <<>>,
            Headers |-> <<>>, Body |-> "nil"]

\* The locals of parseHTTPRequest at its first loop iteration. status is
\* "running" until the call returns ("returned") or panics ("panic");
\* retReq and retErr are the returned pair.
InitParse ==
    [httpReq |-> ZeroReq, headerArr |-> <<>>, headerBytes |-> 0,
     contentLength |-> 0, isHeaderComplete |-> FALSE, count |-> 0,
     status |-> "running", retReq |-> ZeroReq, retErr |-> "nil"]

\* Before the accept loop has started the call: no locals yet.
NotStarted == [InitParse EXCEPT !.status = "pending"]

Return(st, req, err) ==
    [st EXCEPT !.status = "returned", !.retReq = req, !.retErr = err]

\* An index out of range: the goroutine panics and the call never returns.
Panic(st) == [st EXCEPT !.status = "panic"]

\* Faulty variant of ReadFailed: leave the loop on a read error and return what was parsed.
ReadFailed_ReturnsPartial(st) ==
    Return(st, [st.httpReq EXCEPT !.Headers = st.headerArr], "nil")

\* ReadString returned an error (end of stream or a failed read).
ReadFailed(st) == Return(st, ZeroReq, "Something went wrong")

\* The request line: strings.Split on " ", tokens 0, 1 and 2.
RequestLine(st, line) ==
    LET lineData == Split(line, " ")
    IN  IF Len(lineData) < 3 THEN Panic(st)
        ELSE [st EXCEPT !.httpReq.Method = TrimSpace(lineData[1]),
                        !.httpReq.URI = TrimSpace(lineData[2]),
                        !.httpReq.Version = TrimSpace(lineData[3]),
                        !.count = @ + 1]

\* Faulty variant of HeaderLine: headers kept as a map, a repeated name overwrites its entry.
HeaderLine_Overwrites(st, line) ==
    LET lineData == SplitN2(line, ":")
        name     == ToLower(TrimSpace(lineData[1]))
        entry    == [Name |-> name, Value |-> TrimSpace(lineData[2])]
        same     == {k \in 1..Len(st.headerArr) : st.headerArr[k].Name = name}
    IN  IF Len(lineData) < 2 THEN Panic(st)
        ELSE [st EXCEPT !.headerArr =
                            IF same = {} THEN Append(@, entry)
                            ELSE [@ EXCEPT ![Min(same)] = entry],
                        !.count = @ + 1]

\* A header line: strings.SplitN on ":" into at most two parts.
HeaderLine(st, line) ==
    LET lineData == SplitN2(line, ":")
    IN  IF Len(lineData) < 2 THEN Panic(st)
        ELSE [st EXCEPT !.headerArr =
                            Append(@, [Name |-> ToLower(TrimSpace(lineData[1])),
                                       Value |-> TrimSpace(lineData[2])]),
                        !.count = @ + 1]

\* Faulty variant of ScanContentLength: the name is compared as it is
\* written on the wire in its usual capitalisation.
RECURSIVE ScanContentLength_CaseSensitive(_, _)
ScanContentLength_CaseSensitive(headers, contentLength) ==
    IF headers = <<>> THEN [val |-> contentLength, err |-> FALSE]
    ELSE IF Head(headers).Name = <<"C", "o", "n", "t", "e", "n", "t", "-",
                                "L", "e", "n", "g", "t", "h">>
         THEN LET a == Atoi(Head(headers).Value)
              IN  IF a.err THEN [val |-> 0, err |-> TRUE]
                  ELSE ScanContentLength_CaseSensitive(Tail(headers), a.val)
         ELSE ScanContentLength_CaseSensitive(Tail(headers), contentLength)

\* Faulty variant of ScanContentLength: the loop is left at the first
\* occurrence.
ScanContentLength_FirstOnly(headers, contentLength) ==
    LET at == {k \in 1..Len(headers) : headers[k].Name = ContentLengthName}
    IN  IF at = {} THEN [val |-> contentLength, err |-> FALSE]
        ELSE Atoi(headers[Min(at)].Value)

\* The loop over headerArr looking for content-length: the value of every
\* occurrence is converted in turn, the first failure returns.
RECURSIVE ScanContentLength(_, _)
ScanContentLength(headers, contentLength) ==
    IF headers = <<>> THEN [val |-> contentLength, err |-> FALSE]
    ELSE IF Head(headers).Name = ContentLengthName
         THEN LET a == Atoi(Head(headers).Value)
              IN  IF a.err THEN [val |-> 0, err |-> TRUE]
                  ELSE ScanContentLength(Tail(headers), a.val)
         ELSE ScanContentLength(Tail(headers), contentLength)

\* The branch taken once isHeaderComplete is set, on the line read after
\* the empty line.
Finish(st) ==
    LET req == [st.httpReq EXCEPT !.Headers = st.headerArr]
        cl  == ScanContentLength(st.headerArr, st.contentLength)
    IN  IF req.Method = GET \/ req.Method = HEAD
        THEN Return([st EXCEPT !.httpReq = req], req, "nil")
        ELSE IF cl.err
             THEN Return([st EXCEPT !.httpReq = req, !.contentLength = cl.val],
                         ZeroReq, "An error occurred")
             ELSE Return([st EXCEPT !.httpReq = [req EXCEPT !.Body = "limited"],
                                    !.contentLength = cl.val],
                         [req EXCEPT !.Body = "limited"], "nil")

\* One loop iteration on a line ReadString returned without error.
LoopBody(st, line) ==
    IF ~st.isHeaderComplete
    THEN LET counted == [st EXCEPT !.headerBytes = @ + Len(line)]
         IN  IF counted.headerBytes > HeaderCap
             THEN Return(counted, ZeroReq, "Buffer is too large")
             ELSE IF line = CRLF
                  THEN [counted EXCEPT !.isHeaderComplete = TRUE]
                  ELSE IF counted.count = 0
                       THEN RequestLine(counted, line)
                       ELSE HeaderLine(counted, line)
    ELSE Finish(st)

-----------------------------------------------------------------------------
(* The byte streams a client sends.                                        *)

RL_Get         == <<"G", "E", "T", " ", "/", "a", " ",
                    "H", "T", "T", "P", "/", "1", ".", "1", CR, LF>>
RL_Post        == <<"P", "O", "S", "T", " ", "/", "a", " ",
                    "H", "T", "T", "P", "/", "1", ".", "1", CR, LF>>
RL_Head        == <<"H", "E", "A", "D", " ", "/", "a", " ",
                    "H", "T", "T", "P", "/", "1", ".", "1", CR, LF>>
RL_TwoTokens   == <<"G", "E", "T", " ", "/", "a", CR, LF>>
RL_FourTokens  == <<"G", "E", "T", " ", "/", "a", " ", "b", " ",
                    "H", "T", "T", "P", "/", "1", ".", "1", CR, LF>>
RL_DoubleSpace == <<"G", "E", "T", " ", " ",
                    "H", "T", "T", "P", "/", "1", ".", "1", CR, LF>>

HL_ContentLength100 == <<"C", "o", "n", "t", "e", "n", "t", "-",
                         "L", "e", "n", "g", "t", "h", ":", " ", "1", "0", "0", CR, LF>>
HL_ContentLength3   == <<"C", "o", "n", "t", "e", "n", "t", "-",
                         "L", "e", "n", "g", "t", "h", ":", " ", "3", CR, LF>>
HL_Spaced           == <<" ", "X", "-", "I", "d", TAB, ":", " ", "a", ":", "b", " ", CR, LF>>
HL_NoColon          == <<"H", "o", "s", "t", " ", "x", CR, LF>>
HL_Chunked          == <<"T", "r", "a", "n", "s", "f", "e", "r", "-",
                         "E", "n", "c", "o", "d", "i", "n", "g", ":", " ",
                         "c", "h", "u", "n", "k", "e", "d", CR, LF>>
HL_ContentLengthUpper == <<"C", "O", "N", "T", "E", "N", "T", "-",
                           "L", "E", "N", "G", "T", "H", ":", "3", CR, LF>>
HL_ContentLengthNeg   == <<"C", "o", "n", "t", "e", "n", "t", "-",
                           "L", "e", "n", "g", "t", "h", ":", " ", "-", "5", CR, LF>>
HL_ContentLengthText  == <<"C", "o", "n", "t", "e", "n", "t", "-",
                           "L", "e", "n", "g", "t", "h", ":", " ", "3", "x", CR, LF>>
HL_ContentLengthEmpty == <<"C", "o", "n", "t", "e", "n", "t", "-",
                           "L", "e", "n", "g", "t", "h", ":", CR, LF>>

T_Body    == <<"a", "b", "c">>
T_BodyLF  == <<"a", LF, "b", "c", "d", "e">>
T_NextReq == <<"G", "E", "T", " ", "/", "b", " ",
               "H", "T", "T", "P", "/", "1", ".", "1", CR, LF, CR, LF>>
\* A second request, pipelined behind the first, that asks to close.
T_Pipelined == <<"G", "E", "T", " ", "/", "b", " ",
                 "H", "T", "T", "P", "/", "1", ".", "1", CR, LF,
                 "H", "o", "s", "t", ":", " ", "x", CR, LF,
                 "C", "o", "n", "n", "e", "c", "t", "i", "o", "n", ":", " ",
                 "c", "l", "o", "s", "e", CR, LF, CR, LF>>
HL_Host   == <<"H", "o", "s", "t", ":", " ", "x", CR, LF>>
HL_ConnectionClose == <<"C", "o", "n", "n", "e", "c", "t", "i", "o", "n", ":",
                        " ", "c", "l", "o", "s", "e", CR, LF>>
\* Messages for the echo servers.
M_Hi      == <<"h", "i", LF>>
M_Quit    == <<"q", "u", "i", "t", LF>>
M_Partial == <<"y", "o">>
M_Q       == <<"q">>
\* A chunked body: one chunk of three bytes, then the last chunk.
T_Chunks  == <<"3", CR, LF, "a", "b", "c", CR, LF, "0", CR, LF, CR, LF>>

\* The pieces streams are made of, by name.
Pieces ==
    [get |-> RL_Get, post |-> RL_Post, head |-> RL_Head,
     twoTokens |-> RL_TwoTokens, fourTokens |-> RL_FourTokens,
     doubleSpace |-> RL_DoubleSpace, none |-> <<>>,
     contentLength100 |-> HL_ContentLength100,
     contentLength3 |-> HL_ContentLength3,
     spaced |-> HL_Spaced, noColon |-> HL_NoColon,
     long |-> <<"X", ":">> \o [i \in 1..HeaderCap |-> "a"] \o CRLF,
     longBody |-> CRLF \o [i \in 1..HeaderCap |-> "a"],
     end |-> CRLF, body |-> CRLF \o T_Body, bodyLF |-> CRLF \o T_BodyLF,
     nextReq |-> CRLF \o T_NextReq,
     bodyNextReq |-> CRLF \o T_Body \o T_NextReq,
     chunked |-> HL_Chunked, contentLengthUpper |-> HL_ContentLengthUpper,
     contentLengthNeg |-> HL_ContentLengthNeg,
     contentLengthText |-> HL_ContentLengthText,
     contentLengthEmpty |-> HL_ContentLengthEmpty,
     chunks |-> CRLF \o T_Chunks,
     host |-> HL_Host, connectionClose |-> HL_ConnectionClose,
     pipelined |-> CRLF \o T_Pipelined,
     hi |-> M_Hi, quit |-> M_Quit, partial |-> M_Partial, q |-> M_Q,
     absent |-> <<>>]

\* First lines: well formed, with too few and too many tokens, with an
\* empty token, and no first line at all.
RequestLines ==
    {"get", "post", "head", "twoTokens", "fourTokens", "doubleSpace", "none"}

HeaderLines == {"contentLength100", "contentLength3", "spaced", "noColon"}

\* What follows the header lines: the empty line and then nothing, a body
\* or a pipelined request; or ("none") the stream stops short of it.
Endings == {"end", "body", "bodyLF", "nextReq"}

\* Largest number of header lines of a generated request.
MaxHeaders == 2

\* Largest number of bytes cut off the end of an unterminated header block.
MaxCut == 1

\* An input names the pieces of a stream: the request line, the header
\* lines, the ending, and the bytes cut off the end.
ShortInputs ==
    LET blocks == UNION {[1..n -> HeaderLines] : n \in 0..MaxHeaders}
    IN  {[rl |-> rl, hs |-> hs, end |-> e, cut |-> 0] :
             rl \in RequestLines, hs \in blocks, e \in Endings}
        \cup {[rl |-> rl, hs |-> hs, end |-> "none", cut |-> k] :
                 rl \in RequestLines, hs \in blocks, k \in 0..MaxCut}

\* A request whose one header line alone passes the cap (and the buffer).
LongInput == [rl |-> "get", hs |-> <<"long">>, end |-> "end", cut |-> 0]

\* Header blocks about the framing of the body: a chunked transfer coding
\* with and without a length, and lengths in upper case, negative, not a
\* number and empty, and a length that is not a number before and after
\* one that is.
FramingBlocks ==
    {<<"chunked">>, <<"chunked", "contentLength100">>,
     <<"contentLength3", "chunked">>, <<"contentLengthUpper">>,
     <<"contentLengthNeg">>, <<"contentLengthText">>, <<"contentLengthEmpty">>,
     <<"contentLengthText", "contentLength3">>,
     <<"contentLength3", "contentLengthText">>}

FramingInputs ==
    {[rl |-> rl, hs |-> hs, end |-> e, cut |-> 0] :
         rl \in {"get", "post"}, hs \in FramingBlocks, e \in {"bodyLF", "chunks"}}

Inputs == ShortInputs \cup {LongInput} \cup FramingInputs

RECURSIVE Flatten(_)
Flatten(names) ==
    IF names = <<>> THEN <<>> ELSE Pieces[Head(names)] \o Flatten(Tail(names))

\* The bytes of an input.
BytesOf(in) ==
    LET all == Pieces[in.rl] \o Flatten(in.hs) \o Pieces[in.end]
    IN  SubSeq(all, 1, Len(all) - in.cut)

LongStream == BytesOf(LongInput)

\* A short request followed by a body as long as the cap.
LongBodyInput == [rl |-> "post", hs |-> <<"host">>, end |-> "longBody", cut |-> 0]

LongBodyStream == BytesOf(LongBodyInput)

\* Sizes a transport read may return, cut to the room and the bytes left.
FragSizes == {1, BufSize}

-----------------------------------------------------------------------------
(* State.                                                                  *)

Conns == {1}

VARIABLES
    input,      \* input[c]: what the client of connection c sends
    delivered,  \* delivered[c]: bytes the bufio.Reader has read from conn
    consumed,   \* consumed[c]: bytes taken out of the bufio.Reader
    lineStart,  \* lineStart[c]: where the line ReadString is collecting began
    lf,         \* lf[c]: position of the first LF buffered, 0 when none
    parse,      \* parse[c]: the locals and the outcome of parseHTTPRequest
    remaining,  \* remaining[c]: LimitedBodyReader.remaining
    bodyOut,    \* bodyOut[c]: the bytes Read has handed to its caller
    lastRead,   \* lastRead[c]: len(p) of the last Read call and what it returned
    prog,       \* the program of the repository that is running
    conn,       \* conn[c]: "none" before Accept, then "open", "closed" after Close
    out         \* out[c]: the bytes the handler has written to the connection

\* The duplex messenger of an upgraded connection.
VARIABLES
    sendChan,   \* the outbound channel: messages queued for the write task
    sendClosed, \* the application has closed the outbound channel
    recvChan,   \* the inbound channel: messages the read task has forwarded
    recvClosed, \* the read task has closed the inbound channel
    produced,   \* produced[p]: messages producer p has enqueued
    writer,     \* the write task: "idle", "payload" (in a frame), "stopped"
    pending,    \* payloads whose frame header is written and which are not
    reader,     \* the read task: "reading", "stopped"
    closeReq,   \* the read task has told the write task to close
    wire,       \* the bytes written to the transport
    peer        \* what the peer has still to send, in order

connVars == <<input, delivered, consumed, lineStart, lf, parse, remaining,
              bodyOut, lastRead, prog, conn, out>>

wsVars == <<sendChan, sendClosed, recvChan, recvClosed, produced, writer,
            pending, reader, closeReq, wire, peer>>

vars == <<input, delivered, consumed, lineStart, lf, parse, remaining,
          bodyOut, lastRead, prog, conn, out,
          sendChan, sendClosed, recvChan, recvClosed, produced, writer,
          pending, reader, closeReq, wire, peer>>

\* No connection has been upgraded: there is no messenger.
NoMessenger ==
    /\ sendChan = <<>> /\ sendClosed = FALSE
    /\ recvChan = <<>> /\ recvClosed = FALSE
    /\ produced = <<>>
    /\ writer = "none" /\ pending = <<>>
    /\ reader = "none" /\ closeReq = FALSE
    /\ wire = <<>> /\ peer = <<>>

Stream(c) ==
    IF input[c] = LongInput THEN LongStream
    ELSE IF input[c] = LongBodyInput THEN LongBodyStream
    ELSE BytesOf(input[c])

\* Faulty variant of FirstLF: the last LF of the range, so that everything
\* a read brought in is taken as one line.
FirstLF_Last(s, from, to) ==
    LET at == {i \in (from + 1)..to : s[i] = LF}
    IN  IF at = {} THEN 0 ELSE Max(at)

\* Position of the first LF of s in from+1..to, 0 when there is none.
FirstLF(s, from, to) ==
    LET at == {i \in (from + 1)..to : s[i] = LF}
    IN  IF at = {} THEN 0 ELSE Min(at)

\* Bytes one transport read may obtain when room bytes fit and avail are
\* left to come.
ReadSizes(room, avail) == {Min({f, room, avail}) : f \in FragSizes}

Init ==
    /\ input \in [Conns -> Inputs]
    /\ delivered = [c \in Conns |-> 0]
    /\ consumed = [c \in Conns |-> 0]
    /\ lineStart = [c \in Conns |-> 0]
    /\ lf = [c \in Conns |-> 0]
    /\ parse = [c \in Conns |-> NotStarted]
    /\ remaining = [c \in Conns |-> 0]
    /\ bodyOut = [c \in Conns |-> <<>>]
    /\ lastRead = [c \in Conns |-> [len |-> 0, n |-> 0, err |-> "none"]]
    /\ prog = "httpBufio"
    /\ conn = [c \in Conns |-> "none"]
    /\ out = [c \in Conns |-> <<>>]
    /\ NoMessenger

-----------------------------------------------------------------------------
(* Actions.                                                                *)

\* Largest len(p) a caller passes to LimitedBodyReader.Read.
MaxReadLen == 2

Buffered(c) == delivered[c] - consumed[c]
AtEnd(c) == delivered[c] = Len(Stream(c))

\* Faulty variant of Accept: the handler is called in the accept loop, so
\* no connection is accepted while a handler runs.
Accept_Inline(c) ==
    /\ parse[c].status = "pending"
    /\ \A d \in DOMAIN parse : parse[d].status # "running"
    /\ parse' = [parse EXCEPT ![c] = InitParse]
    /\ conn' = [conn EXCEPT ![c] = "open"]
    /\ UNCHANGED <<input, delivered, consumed, lineStart, lf, remaining,
                   bodyOut, lastRead, prog, out>>

\* main: ln.Accept() returns the connection and the parser is started on a
\* new bufio.Reader over it, in its own goroutine.
Accept(c) ==
    /\ parse[c].status = "pending"
    /\ parse' = [parse EXCEPT ![c] = InitParse]
    /\ conn' = [conn EXCEPT ![c] = "open"]
    /\ UNCHANGED <<input, delivered, consumed, lineStart, lf, remaining,
                   bodyOut, lastRead, prog, out>>

\* reader.ReadString('\n') finds no LF buffered and reads the transport
\* once; a full buffer is first moved into the line being collected.
Fill(c) ==
    /\ parse[c].status = "running"
    /\ lf[c] = 0
    /\ ~AtEnd(c)
    /\ LET r    == IF Buffered(c) >= BufSize THEN delivered[c] ELSE consumed[c]
           room == BufSize - (delivered[c] - r)
       IN  \E n \in ReadSizes(room, Len(Stream(c)) - delivered[c]) :
               /\ delivered' = [delivered EXCEPT ![c] = @ + n]
               /\ consumed' = [consumed EXCEPT ![c] = r]
               /\ lf' = [lf EXCEPT ![c] =
                            FirstLF(Stream(c), delivered[c], delivered[c] + n)]
    /\ UNCHANGED <<input, lineStart, parse, remaining, bodyOut, lastRead,
                   prog, conn, out>>

\* Faulty variant of LineRead: only what the buffer holds, without the pieces a full buffer
\* had handed over before (ReadSlice in place of ReadString).
LineRead_BufferOnly(c) == SubSeq(Stream(c), consumed[c] + 1, lf[c])

\* The line ReadString returns: everything collected since the last line,
\* up to and including the LF found.
LineRead(c) == SubSeq(Stream(c), lineStart[c] + 1, lf[c])

\* reader.ReadString('\n') of a running parser finds an LF buffered.
HasLine(c) == parse[c].status = "running" /\ lf[c] # 0

\* ReadString returns the line up to the first LF and the loop body runs
\* on it; a returned body reader starts with remaining = contentLength.
ReadLine(c) ==
    /\ HasLine(c)
    /\ LET st == LoopBody(parse[c], LineRead(c))
       IN  /\ parse' = [parse EXCEPT ![c] = st]
           /\ remaining' = [remaining EXCEPT ![c] =
                               IF st.status = "returned" /\ st.retReq.Body = "limited"
                               THEN st.contentLength ELSE @]
    /\ consumed' = [consumed EXCEPT ![c] = lf[c]]
    /\ lineStart' = [lineStart EXCEPT ![c] = lf[c]]
    /\ lf' = [lf EXCEPT ![c] = FirstLF(Stream(c), lf[c], delivered[c])]
    /\ UNCHANGED <<input, delivered, bodyOut, lastRead, prog, conn, out>>

\* The client has sent everything and closed (or the transport failed):
\* ReadString returns what it has collected with the error, and the parser
\* returns the error. A client that stays idle instead leaves the call
\* blocked in the read.
ReadEOF(c) ==
    /\ parse[c].status = "running"
    /\ lf[c] = 0
    /\ AtEnd(c)
    /\ parse' = [parse EXCEPT ![c] = ReadFailed(@)]
    /\ consumed' = [consumed EXCEPT ![c] = delivered[c]]
    /\ lineStart' = [lineStart EXCEPT ![c] = delivered[c]]
    /\ UNCHANGED <<input, delivered, lf, remaining, bodyOut, lastRead,
                   prog, conn, out>>

\* Faulty variant of Deliver: everything buffered is handed over, whatever
\* the caller asked for.
Deliver_IgnoresLimit(c, plen, bytesIWant, upTo) ==
    LET n == upTo - consumed[c]
    IN  /\ consumed' = [consumed EXCEPT ![c] = @ + n]
        /\ bodyOut' = [bodyOut EXCEPT ![c] =
                          @ \o SubSeq(Stream(c), consumed[c] + 1, consumed[c] + n)]
        /\ remaining' = [remaining EXCEPT ![c] = @ - n]
        /\ lastRead' = [lastRead EXCEPT ![c] =
                           [len |-> plen, n |-> n, err |-> "nil"]]

\* r.buf.Read has the bytes up to position upTo buffered: it copies at
\* most bytesIWant of them and Read subtracts the count from remaining.
Deliver(c, plen, bytesIWant, upTo) ==
    LET n == Min({bytesIWant, upTo - consumed[c]})
    IN  /\ consumed' = [consumed EXCEPT ![c] = @ + n]
        /\ bodyOut' = [bodyOut EXCEPT ![c] =
                          @ \o SubSeq(Stream(c), consumed[c] + 1, consumed[c] + n)]
        /\ remaining' = [remaining EXCEPT ![c] = @ - n]
        /\ lastRead' = [lastRead EXCEPT ![c] =
                           [len |-> plen, n |-> n, err |-> "nil"]]

\* Faulty variant of BodyRead: the error of the underlying read is passed
\* on as it is, io.EOF at the end of the stream.
BodyRead_PassesEOF(c) ==
    /\ parse[c].status = "returned"
    /\ parse[c].retReq.Body = "limited"
    /\ lastRead[c].err # "panic"
    /\ \E plen \in 1..MaxReadLen :
         IF remaining[c] = 0
         THEN /\ lastRead' = [lastRead EXCEPT ![c] = [len |-> plen, n |-> 0, err |-> "EOF"]]
              /\ UNCHANGED <<delivered, consumed, remaining, bodyOut>>
         ELSE LET bytesIWant == Min({plen, remaining[c]})
              IN  IF bytesIWant < 0
                  THEN \* p[:bytesIWant]: slice bounds out of range
                       /\ lastRead' = [lastRead EXCEPT ![c] = [len |-> plen, n |-> 0, err |-> "panic"]]
                       /\ UNCHANGED <<delivered, consumed, remaining, bodyOut>>
                  ELSE IF Buffered(c) > 0
                  THEN /\ Deliver(c, plen, bytesIWant, delivered[c])
                       /\ UNCHANGED delivered
                  ELSE IF AtEnd(c)
                  THEN /\ lastRead' = [lastRead EXCEPT ![c] = [len |-> plen, n |-> 0, err |-> "EOF"]]
                       /\ UNCHANGED <<delivered, consumed, remaining, bodyOut>>
                  ELSE \E k \in ReadSizes(BufSize, Len(Stream(c)) - delivered[c]) :
                           /\ delivered' = [delivered EXCEPT ![c] = @ + k]
                           /\ Deliver(c, plen, bytesIWant, delivered[c] + k)
    /\ UNCHANGED <<input, lineStart, lf, parse, prog, conn, out>>

\* One call of Read(p) on the body the parser returned, len(p) = plen.
\* With nothing buffered the bufio.Reader reads the transport once; at end
\* of stream that read fails if the client has closed and blocks otherwise.
BodyRead(c) ==
    /\ parse[c].status = "returned"
    /\ parse[c].retReq.Body = "limited"
    /\ lastRead[c].err # "panic"
    /\ \E plen \in 1..MaxReadLen :
         IF remaining[c] = 0
         THEN /\ lastRead' = [lastRead EXCEPT ![c] = [len |-> plen, n |-> 0, err |-> "EOF"]]
              /\ UNCHANGED <<delivered, consumed, remaining, bodyOut>>
         ELSE LET bytesIWant == Min({plen, remaining[c]})
              IN  IF bytesIWant < 0
                  THEN \* p[:bytesIWant]: slice bounds out of range
                       /\ lastRead' = [lastRead EXCEPT ![c] = [len |-> plen, n |-> 0, err |-> "panic"]]
                       /\ UNCHANGED <<delivered, consumed, remaining, bodyOut>>
                  ELSE IF Buffered(c) > 0
                  THEN /\ Deliver(c, plen, bytesIWant, delivered[c])
                       /\ UNCHANGED delivered
                  ELSE IF AtEnd(c)
                  THEN /\ lastRead' = [lastRead EXCEPT ![c] = [len |-> plen, n |-> 0, err |-> "error"]]
                       /\ UNCHANGED <<delivered, consumed, remaining, bodyOut>>
                  ELSE \E k \in ReadSizes(BufSize, Len(Stream(c)) - delivered[c]) :
                           /\ delivered' = [delivered EXCEPT ![c] = @ + k]
                           /\ Deliver(c, plen, bytesIWant, delivered[c] + k)
    /\ UNCHANGED <<input, lineStart, lf, parse, prog, conn, out>>

Next ==
    \E c \in Conns :
        \/ Accept(c) /\ UNCHANGED wsVars
        \/ Fill(c) /\ UNCHANGED wsVars
        \/ ReadLine(c) /\ UNCHANGED wsVars
        \/ ReadEOF(c) /\ UNCHANGED wsVars
        \/ BodyRead(c) /\ UNCHANGED wsVars

Spec == Init /\ [][Next]_vars

-----------------------------------------------------------------------------
(* The servers. Every program of the repository is an accept loop that     *)
(* starts one goroutine per accepted connection:                           *)
(*   httpBufio  parseHTTPRequest over a bufio.Reader (part_000:899-915)    *)
(*   httpConn   parseHTTPRequest reading the connection (part_001:19-92)   *)
(*   lineEcho   the newline-delimited echo server (main.go:64-109)         *)
(*   echo       the echo server that stops at "q" (part_001:101-147)       *)
(*   echoOnce   the one-read echo server (part_002:8-32)                   *)
(* parse[c].status is the state of the goroutine of connection c. An       *)
(* index out of range in one goroutine ends the whole process.             *)

Programs == {"httpBufio", "httpConn", "lineEcho", "echo", "echoOnce"}

ServerConns == {1, 2}

\* buf := make([]byte, 8192) of the connection parser (part_001:21) and its
\* limit on len(fullRequest) (part_001:31).
ConnBufSize == 8192
ConnCap     == 8192

\* buf := make([]byte, 4096) of the echo servers (part_001:132, part_002:27).
EchoBufSize == 4096

\* The zero byte a fresh buffer is filled with.
NUL == "0x00"

EchoPrefix == <<"E", "c", "h", "o", ":", " ">>
Bye        == <<"B", "y", "e", ".", LF>>
QuitText   == <<"q", "u", "i", "t">>

\* No client: nobody connects on this connection.
Absent == [rl |-> "absent", hs |-> <<>>, end |-> "none", cut |-> 0]

\* Requests sent to the HTTP servers: two pipelined requests, a header
\* block the client leaves unfinished, a request line of two tokens, a
\* header line without colon followed by another header, a Content-Length
\* that is not a number, a request that asks for the connection to be
\* closed, a request without header lines, and a request with a body of
\* three bytes and a request after it.
HttpInputs ==
    {[rl |-> "get", hs |-> <<"host">>, end |-> "pipelined", cut |-> 0],
     [rl |-> "get", hs |-> <<"host">>, end |-> "none", cut |-> 0],
     [rl |-> "twoTokens", hs |-> <<>>, end |-> "end", cut |-> 0],
     [rl |-> "get", hs |-> <<"noColon", "host">>, end |-> "end", cut |-> 0],
     [rl |-> "post", hs |-> <<"contentLengthText">>, end |-> "bodyLF", cut |-> 0],
     [rl |-> "get", hs |-> <<"connectionClose">>, end |-> "end", cut |-> 0],
     [rl |-> "get", hs |-> <<>>, end |-> "end", cut |-> 0],
     [rl |-> "post", hs |-> <<"contentLength3">>, end |-> "bodyNextReq",
      cut |-> 0]}

\* Messages sent to the echo servers.
MessageInputs ==
    {[rl |-> "none", hs |-> <<"hi", "quit", "hi">>, end |-> "none", cut |-> 0],
     [rl |-> "none", hs |-> <<"hi", "partial">>, end |-> "none", cut |-> 0],
     [rl |-> "none", hs |-> <<"q", "q">>, end |-> "none", cut |-> 0]}

\* What the clients of the connections send to program p. A stream that
\* passes the cap is sent with no other client connected; the one that
\* passes it with its body is sent to the connection parser.
ServerInputs(p) ==
    IF p \in {"httpBufio", "httpConn", "lineEcho"}
    THEN [ServerConns -> IF p = "lineEcho" THEN MessageInputs ELSE HttpInputs]
         \cup {[c \in ServerConns |-> IF c = 1 THEN LongInput ELSE Absent]}
         \cup {[c \in ServerConns |-> IF c = 1 THEN LongBodyInput ELSE Absent] :
                   q \in {p} \cap {"httpConn"}}
    ELSE [ServerConns -> MessageInputs]

InitServers ==
    /\ prog \in Programs
    /\ input \in ServerInputs(prog)
    /\ delivered = [c \in ServerConns |-> 0]
    /\ consumed = [c \in ServerConns |-> 0]
    /\ lineStart = [c \in ServerConns |-> 0]
    /\ lf = [c \in ServerConns |-> 0]
    /\ parse = [c \in ServerConns |-> NotStarted]
    /\ remaining = [c \in ServerConns |-> 0]
    /\ bodyOut = [c \in ServerConns |-> <<>>]
    /\ lastRead = [c \in ServerConns |-> [len |-> 0, n |-> 0, err |-> "none"]]
    /\ conn = [c \in ServerConns |-> "none"]
    /\ out = [c \in ServerConns |-> <<>>]
    /\ NoMessenger

\* A goroutine has panicked: the process has exited.
Crashed == \E c \in DOMAIN parse : parse[c].status = "panic"

Running(c) == parse[c].status = "running"

\* The handler returns; its deferred (or final) conn.Close() has run.
ReturnAndClose(c, req) ==
    /\ parse' = [parse EXCEPT ![c] = Return(@, req, "nil")]
    /\ conn' = [conn EXCEPT ![c] = "closed"]

\* Faulty variant of Chunk: one buffer for all handlers, holding what the
\* handler of connection 1 put there.
Chunk_SharedBuf(c, n) ==
    [i \in 1..n |-> IF delivered[c] + i <= Len(Stream(1))
                    THEN Stream(1)[delivered[c] + i] ELSE NUL]

\* buf[:n] after a conn.Read that obtained the next n bytes.
Chunk(c, n) == SubSeq(Stream(c), delivered[c] + 1, delivered[c] + n)

srvReaderVars == <<consumed, lineStart, lf, remaining, bodyOut, lastRead>>

(* httpConn: parseHTTPRequest(conn), part_001:19-74.                        *)

\* Position of the first "\r\n\r\n" of s that starts at from or later and
\* ends at to or before, 0 when there is none.
IndexTerminator(s, from, to) ==
    LET at == {i \in from..(to - 3) :
                  /\ s[i] = CR /\ s[i + 1] = LF
                  /\ s[i + 2] = CR /\ s[i + 3] = LF}
    IN  IF at = {} THEN 0 ELSE Min(at)

\* A header line of the connection parser: the name is trimmed, its case
\* is kept.
ConnHeaderLine(st, line) ==
    LET lineData == SplitN2(line, ":")
    IN  IF Len(lineData) < 2 THEN Panic(st)
        ELSE [st EXCEPT !.headerArr =
                            Append(@, [Name |-> TrimSpace(lineData[1]),
                                       Value |-> TrimSpace(lineData[2])]),
                        !.count = @ + 1]

\* The loop over the bytes of header: line grows byte by byte and is
\* handled, then reset, each time its last two bytes are CRLF. Bytes after
\* the last CRLF are never handled.
RECURSIVE ConnHeaderLines(_, _, _)
ConnHeaderLines(st, header, from) ==
    LET ends == {i \in (from + 2)..Len(header) :
                    header[i - 1] = CR /\ header[i] = LF}
    IN  IF st.status # "running" \/ ends = {} THEN st
        ELSE LET line == SubSeq(header, from + 1, Min(ends))
             IN  ConnHeaderLines(IF st.count = 0 THEN RequestLine(st, line)
                                 ELSE ConnHeaderLine(st, line),
                                 header, Min(ends))

\* The for loop of parseHTTPRequest is at conn.Read and the transport has
\* bytes for it.
ConnCanRead(c) == prog = "httpConn" /\ Running(c) /\ ~AtEnd(c)

\* One iteration of the read loop: conn.Read obtains n bytes, one, a
\* fragment or as many as buf takes, they are
\* appended to fullRequest (the first delivered[c] bytes of the stream);
\* over the limit the call returns HTTPReq{}, with the terminator in
\* fullRequest the bytes before it are parsed and the call returns. The
\* terminator is searched from where an earlier iteration could not have
\* seen it. The deferred conn.Close() runs on return and on panic.
ConnParserRead(c) ==
    /\ ConnCanRead(c)
    /\ \E s \in {Stream(c)}, from \in {Max({1, delivered[c] - 2})} :
       \E n \in ReadSizes(ConnBufSize, Len(s) - delivered[c])
                  \cup {Min({ConnBufSize, Len(s) - delivered[c]})} :
       \E got \in {delivered[c] + n} :
       \E idx \in {IndexTerminator(s, from, got)} :
       \E h \in {ConnHeaderLines(parse[c], SubSeq(s, 1, idx - 1), 0)} :
       \E req \in {[h.httpReq EXCEPT !.Headers = h.headerArr]} :
       \E st \in {IF got > ConnCap THEN Return(parse[c], ZeroReq, "nil")
                  ELSE IF idx = 0 THEN parse[c]
                  ELSE IF h.status = "panic" THEN h
                  ELSE Return([h EXCEPT !.httpReq = req], req, "nil")} :
            /\ delivered' = [delivered EXCEPT ![c] = got]
            /\ parse' = [parse EXCEPT ![c] = st]
            /\ conn' = [conn EXCEPT ![c] =
                           IF st.status = "running" THEN @ ELSE "closed"]
    /\ UNCHANGED <<input, srvReaderVars, prog, out>>

\* conn.Read returns an error (the client has closed): the loop is left
\* and httpReq, still the zero value, is returned.
ConnParserEOF(c) ==
    /\ prog = "httpConn"
    /\ Running(c)
    /\ AtEnd(c)
    /\ ReturnAndClose(c, parse[c].httpReq)
    /\ UNCHANGED <<input, delivered, srvReaderVars, prog, out>>

(* echo: handleConnection, part_001:129-147.                                *)

\* Faulty variant of EchoRead: the chunk is written back before it is
\* compared with "q".
EchoRead_EchoesFirst(c) ==
    /\ prog = "echo"
    /\ Running(c)
    /\ ~AtEnd(c)
    /\ \E n \in ReadSizes(EchoBufSize, Len(Stream(c)) - delivered[c]) :
         /\ delivered' = [delivered EXCEPT ![c] = @ + n]
         /\ out' = [out EXCEPT ![c] = @ \o Chunk(c, n)]
         /\ IF Chunk(c, n) = M_Q
            THEN ReturnAndClose(c, ZeroReq)
            ELSE UNCHANGED <<parse, conn>>
    /\ UNCHANGED <<input, srvReaderVars, prog>>

\* con.Read obtains n bytes: the chunk "q" ends the handler, any other
\* chunk is written back.
EchoRead(c) ==
    /\ prog = "echo"
    /\ Running(c)
    /\ ~AtEnd(c)
    /\ \E n \in ReadSizes(EchoBufSize, Len(Stream(c)) - delivered[c]) :
         /\ delivered' = [delivered EXCEPT ![c] = @ + n]
         /\ IF Chunk(c, n) = M_Q
            THEN ReturnAndClose(c, ZeroReq) /\ UNCHANGED out
            ELSE /\ out' = [out EXCEPT ![c] = @ \o Chunk(c, n)]
                 /\ UNCHANGED <<parse, conn>>
    /\ UNCHANGED <<input, srvReaderVars, prog>>

\* con.Read returns io.EOF or another error: the handler returns.
EchoEOF(c) ==
    /\ prog = "echo"
    /\ Running(c)
    /\ AtEnd(c)
    /\ ReturnAndClose(c, ZeroReq)
    /\ UNCHANGED <<input, delivered, srvReaderVars, prog, out>>

(* echoOnce: handleConn, part_002:26-32.                                    *)

\* One conn.Read whose result is ignored, then the whole buffer, len(buf)
\* bytes, is written and the connection closed. n = 0 is the read that
\* failed because the client has closed.
EchoOnce(c) ==
    /\ prog = "echoOnce"
    /\ Running(c)
    /\ \E n \in IF AtEnd(c) THEN {0}
                ELSE ReadSizes(EchoBufSize, Len(Stream(c)) - delivered[c]) :
         /\ delivered' = [delivered EXCEPT ![c] = @ + n]
         /\ out' = [out EXCEPT ![c] =
                        Chunk(c, n) \o [i \in 1..(EchoBufSize - n) |-> NUL]]
    /\ ReturnAndClose(c, ZeroReq)
    /\ UNCHANGED <<input, srvReaderVars, prog>>

(* lineEcho: handleConn, main.go:64-92.                                     *)

\* Faulty variant of TrimRightLF: the line is used as it was read.
TrimRightLF_Keeps(s) == s

\* strings.TrimRight(s, "\n").
TrimRightLF(s) ==
    LET keep == {i \in 1..Len(s) : s[i] # LF}
    IN  IF keep = {} THEN <<>> ELSE SubSeq(s, 1, Max(keep))

\* The body of the loop on a non-empty line, read with error err or none:
\* "quit" is answered with Bye and ends the handler, any other text is
\* echoed, and a read error ends the handler after that.
LineEchoStep(c, line, err) ==
    LET text == TrimRightLF(line)
    IN  IF line # <<>> /\ text = QuitText
        THEN /\ out' = [out EXCEPT ![c] = @ \o Bye]
             /\ ReturnAndClose(c, ZeroReq)
        ELSE /\ out' = [out EXCEPT ![c] =
                            IF line = <<>> THEN @
                            ELSE @ \o EchoPrefix \o text \o <<LF>>]
             /\ IF err THEN ReturnAndClose(c, ZeroReq)
                ELSE UNCHANGED <<parse, conn>>

\* reader.ReadString returns a line that ends with LF.
LineEcho(c) ==
    /\ prog = "lineEcho"
    /\ Running(c)
    /\ lf[c] # 0
    /\ LineEchoStep(c, LineRead(c), FALSE)
    /\ consumed' = [consumed EXCEPT ![c] = lf[c]]
    /\ lineStart' = [lineStart EXCEPT ![c] = lf[c]]
    /\ lf' = [lf EXCEPT ![c] = FirstLF(Stream(c), lf[c], delivered[c])]
    /\ UNCHANGED <<input, delivered, remaining, bodyOut, lastRead, prog>>

\* reader.ReadString returns what it has collected, possibly nothing, and
\* the error: the client has closed.
LineEchoEOF(c) ==
    /\ prog = "lineEcho"
    /\ Running(c)
    /\ lf[c] = 0
    /\ AtEnd(c)
    /\ LineEchoStep(c, SubSeq(Stream(c), lineStart[c] + 1, delivered[c]), TRUE)
    /\ consumed' = [consumed EXCEPT ![c] = delivered[c]]
    /\ lineStart' = [lineStart EXCEPT ![c] = delivered[c]]
    /\ UNCHANGED <<input, delivered, lf, remaining, bodyOut, lastRead, prog>>

\* The accept loop of every program: a client that has connected is
\* accepted and its handler started with the go statement.
Connected(c) == input[c] # Absent

NextServers ==
    \E c \in ServerConns :
        \/ ~Crashed /\ Connected(c) /\ Accept(c) /\ UNCHANGED wsVars
        \/ ~Crashed /\ prog \in {"httpBufio", "lineEcho"} /\ Fill(c) /\ UNCHANGED wsVars
        \/ ~Crashed /\ prog = "httpBufio" /\ ReadLine(c) /\ UNCHANGED wsVars
        \/ ~Crashed /\ prog = "httpBufio" /\ ReadEOF(c) /\ UNCHANGED wsVars
        \/ ~Crashed /\ ConnParserRead(c) /\ UNCHANGED wsVars
        \/ ~Crashed /\ ConnParserEOF(c) /\ UNCHANGED wsVars
        \/ ~Crashed /\ LineEcho(c) /\ UNCHANGED wsVars
        \/ ~Crashed /\ LineEchoEOF(c) /\ UNCHANGED wsVars
        \/ ~Crashed /\ EchoRead(c) /\ UNCHANGED wsVars
        \/ ~Crashed /\ EchoEOF(c) /\ UNCHANGED wsVars
        \/ ~Crashed /\ EchoOnce(c) /\ UNCHANGED wsVars

SpecServers == InitServers /\ [][NextServers]_vars

-----------------------------------------------------------------------------
(* The duplex messenger of an upgraded connection: one read task, one      *)
(* write task, and producers that only touch the outbound channel.          *)

\* Producers that enqueue concurrently, and messages each of them sends.
NumProducers == 2
MsgsPerProducer == 2
Producers == 1..NumProducers

\* Capacity of the outbound and of the inbound channel.
ChanCap == 1

\* Opcodes, and the first byte of an unfragmented frame: fin bit and opcode.
OpText  == 1
OpClose == 8
FinBit  == 128

\* Message k of producer p: its payload is k bytes that name the message.
Msg(p, k) == [op |-> OpText, payload |-> [i \in 1..k |-> 10 * p + k]]

AllMessages == {Msg(p, k) : p \in Producers, k \in 1..MsgsPerProducer}

CloseMsg == [op |-> OpClose, payload |-> <<>>]

\* The header of a frame sent by the server: fin and opcode, then the
\* length with the mask bit clear, no mask key (payloads of up to 125).
FrameHeader(m) == <<FinBit + m.op, Len(m.payload)>>

EncodeFrame(m) == FrameHeader(m) \o m.payload

\* Decoding of a byte stream into frames: two header bytes, then as many
\* payload bytes as the length field says. ok is FALSE at a header that is
\* not one of an unmasked, unfragmented text or close frame; rest is an
\* incomplete frame at the end.
RECURSIVE DecodeFrames(_)
DecodeFrames(bytes) ==
    IF bytes = <<>> THEN [ok |-> TRUE, frames |-> <<>>, rest |-> <<>>]
    ELSE IF Len(bytes) < 2 THEN [ok |-> TRUE, frames |-> <<>>, rest |-> bytes]
    ELSE LET fin    == bytes[1] \div FinBit
             opcode == bytes[1] % 16
             masked == bytes[2] \div 128
             length == bytes[2] % 128
         IN  IF fin # 1 \/ bytes[1] # FinBit + opcode \/ masked # 0
                \/ opcode \notin {OpText, OpClose} \/ length > 125
             THEN [ok |-> FALSE, frames |-> <<>>, rest |-> bytes]
             ELSE IF Len(bytes) < 2 + length
                  THEN [ok |-> TRUE, frames |-> <<>>, rest |-> bytes]
                  ELSE LET d == DecodeFrames(SubSeq(bytes, 3 + length, Len(bytes)))
                       IN  [d EXCEPT !.frames =
                               <<[op |-> opcode,
                                  payload |-> SubSeq(bytes, 3, 2 + length)]>> \o @]

\* In place of an opcode: the read of the transport fails.
ReadError == -1

\* What the peer sends: nothing, messages, a close frame, or its transport
\* fails.
PeerText  == [op |-> OpText, payload |-> <<7>>]
PeerError == [op |-> ReadError, payload |-> <<>>]
PeerScripts ==
    {<<>>, <<PeerText>>, <<CloseMsg>>, <<PeerText, CloseMsg>>, <<PeerError>>,
     <<PeerText, PeerText>>}

\* The connection has been upgraded and handed to the messenger: both
\* tasks are started and both channels are empty.
InitMessenger ==
    /\ input = [c \in Conns |-> Absent]
    /\ delivered = [c \in Conns |-> 0]
    /\ consumed = [c \in Conns |-> 0]
    /\ lineStart = [c \in Conns |-> 0]
    /\ lf = [c \in Conns |-> 0]
    /\ parse = [c \in Conns |-> NotStarted]
    /\ remaining = [c \in Conns |-> 0]
    /\ bodyOut = [c \in Conns |-> <<>>]
    /\ lastRead = [c \in Conns |-> [len |-> 0, n |-> 0, err |-> "none"]]
    /\ prog = "messenger"
    /\ conn = [c \in Conns |-> "open"]
    /\ out = [c \in Conns |-> <<>>]
    /\ sendChan = <<>> /\ sendClosed = FALSE
    /\ recvChan = <<>> /\ recvClosed = FALSE
    /\ produced = [p \in Producers |-> 0]
    /\ writer = "idle" /\ pending = <<>>
    /\ reader = "reading" /\ closeReq = FALSE
    /\ wire = <<>>
    /\ peer \in PeerScripts

\* A producer sends its next message on the outbound channel; the send
\* waits while the channel is full. Nothing is sent on a closed channel.
Produce(p) ==
    /\ produced[p] < MsgsPerProducer
    /\ ~sendClosed
    /\ Len(sendChan) < ChanCap
    /\ sendChan' = Append(sendChan, Msg(p, produced[p] + 1))
    /\ produced' = [produced EXCEPT ![p] = @ + 1]
    /\ UNCHANGED <<sendClosed, recvChan, recvClosed, writer, pending, reader,
                   closeReq, wire, peer>>

\* The application asks for shutdown: it closes the outbound channel.
CloseOutbound ==
    /\ ~sendClosed
    /\ sendClosed' = TRUE
    /\ UNCHANGED <<sendChan, recvChan, recvClosed, produced, writer, pending,
                   reader, closeReq, wire, peer>>

\* Faulty variant of TakeMessage: every message is handed to a writer of
\* its own, so the next one is taken while a frame is still being written.
TakeMessage_Spawns ==
    /\ writer \in {"idle", "payload"}
    /\ sendChan # <<>>
    /\ wire' = wire \o FrameHeader(Head(sendChan))
    /\ pending' = Append(pending, Head(sendChan).payload)
    /\ writer' = "payload"
    /\ sendChan' = Tail(sendChan)
    /\ UNCHANGED <<sendClosed, recvChan, recvClosed, produced, reader,
                   closeReq, peer>>

\* The write task receives the next message of the outbound channel and
\* writes the header of its frame.
TakeMessage ==
    /\ writer = "idle"
    /\ sendChan # <<>>
    /\ wire' = wire \o FrameHeader(Head(sendChan))
    /\ pending' = Append(pending, Head(sendChan).payload)
    /\ writer' = "payload"
    /\ sendChan' = Tail(sendChan)
    /\ UNCHANGED <<sendClosed, recvChan, recvClosed, produced, reader,
                   closeReq, peer>>

\* The payload of a frame whose header is on the transport is written.
WritePayload ==
    /\ writer = "payload"
    /\ \E i \in 1..Len(pending) :
         /\ wire' = wire \o pending[i]
         /\ pending' = SubSeq(pending, 1, i - 1)
                          \o SubSeq(pending, i + 1, Len(pending))
         /\ writer' = IF Len(pending) = 1 THEN "idle" ELSE "payload"
    /\ UNCHANGED <<sendChan, sendClosed, recvChan, recvClosed, produced,
                   reader, closeReq, peer>>

\* Faulty variant of WriterShutdown: the write task stops as soon as the
\* outbound channel is closed, whatever is still queued.
WriterShutdown_NoDrain ==
    /\ writer = "idle"
    /\ sendClosed
    /\ wire' = wire \o EncodeFrame(CloseMsg)
    /\ writer' = "stopped"
    /\ UNCHANGED <<sendChan, sendClosed, recvChan, recvClosed, produced,
                   pending, reader, closeReq, peer>>

\* The outbound channel is closed and drained: the write task sends its
\* close frame and stops.
WriterShutdown ==
    /\ writer = "idle"
    /\ sendClosed
    /\ sendChan = <<>>
    /\ wire' = wire \o EncodeFrame(CloseMsg)
    /\ writer' = "stopped"
    /\ UNCHANGED <<sendChan, sendClosed, recvChan, recvClosed, produced,
                   pending, reader, closeReq, peer>>

\* The read task has seen the end of the connection: the write task sends
\* a close frame and stops.
WriterPeerClosed ==
    /\ writer = "idle"
    /\ closeReq
    /\ wire' = wire \o EncodeFrame(CloseMsg)
    /\ writer' = "stopped"
    /\ UNCHANGED <<sendChan, sendClosed, recvChan, recvClosed, produced,
                   pending, reader, closeReq, peer>>

\* The read task decodes a message and forwards it into the inbound
\* channel; it waits while the channel is full.
ReadMessage ==
    /\ reader = "reading"
    /\ peer # <<>>
    /\ Head(peer).op = OpText
    /\ Len(recvChan) < ChanCap
    /\ recvChan' = Append(recvChan, Head(peer))
    /\ peer' = Tail(peer)
    /\ UNCHANGED <<sendChan, sendClosed, recvClosed, produced, writer,
                   pending, reader, closeReq, wire>>

\* The read task receives a close frame, or its read fails: it closes the
\* inbound channel, tells the write task and stops.
ReadEnd ==
    /\ reader = "reading"
    /\ peer # <<>>
    /\ Head(peer).op # OpText
    /\ recvClosed' = TRUE
    /\ closeReq' = TRUE
    /\ reader' = "stopped"
    /\ peer' = Tail(peer)
    /\ UNCHANGED <<sendChan, sendClosed, recvChan, produced, writer, pending,
                   wire>>

\* The application receives a message from the inbound channel.
Receive ==
    /\ recvChan # <<>>
    /\ recvChan' = Tail(recvChan)
    /\ UNCHANGED <<sendChan, sendClosed, recvClosed, produced, writer,
                   pending, reader, closeReq, wire, peer>>

NextMessenger ==
    \/ \E p \in Producers : Produce(p) /\ UNCHANGED connVars
    \/ CloseOutbound /\ UNCHANGED connVars
    \/ TakeMessage /\ UNCHANGED connVars
    \/ WritePayload /\ UNCHANGED connVars
    \/ WriterShutdown /\ UNCHANGED connVars
    \/ WriterPeerClosed /\ UNCHANGED connVars
    \/ ReadMessage /\ UNCHANGED connVars
    \/ ReadEnd /\ UNCHANGED connVars
    \/ Receive /\ UNCHANGED connVars

SpecMessenger == InitMessenger /\ [][NextMessenger]_vars

\* The write task is a goroutine of its own: it is scheduled as long as it
\* has something to do.
SpecMessengerFair ==
    /\ SpecMessenger
    /\ WF_vars(TakeMessage /\ UNCHANGED connVars)
    /\ WF_vars(WritePayload /\ UNCHANGED connVars)
    /\ WF_vars(WriterShutdown /\ UNCHANGED connVars)
    /\ WF_vars(WriterPeerClosed /\ UNCHANGED connVars)

(* the stream alone.                                                       *)

\* The complete (LF-terminated) lines of s, in order.
RECURSIVE WireLines(_)
WireLines(s) ==
    LET i == FirstLF(s, 0, Len(s))
    IN  IF i = 0 THEN <<>>
        ELSE <<SubSeq(s, 1, i)>> \o WireLines(SubSeq(s, i + 1, Len(s)))

\* Number of the first empty line (CRLF alone) of s, 0 when there is none.
TerminatorLine(s) ==
    LET ls == WireLines(s)
        at == {k \in 1..Len(ls) : ls[k] = CRLF}
    IN  IF at = {} THEN 0 ELSE Min(at)

RECURSIVE TotalLen(_)
TotalLen(ls) == IF ls = <<>> THEN 0 ELSE Len(Head(ls)) + TotalLen(Tail(ls))

\* Position of the last byte of the header terminator of s (0: none).
TerminatorEnd(s) ==
    LET t == TerminatorLine(s)
    IN  IF t = 0 THEN 0 ELSE TotalLen(SubSeq(WireLines(s), 1, t))

Returned(c) == parse[c].status = "returned"
Succeeded(c) == Returned(c) /\ parse[c].retErr = "nil"

HasHeader(req, name, value) ==
    \E k \in 1..Len(req.Headers) :
        req.Headers[k].Name = name /\ req.Headers[k].Value = value

-----------------------------------------------------------------------------
\* C1: a GET or HEAD request with Content-Length: 100 is returned without a
\* body, and the parser has then taken from the shared reader exactly the
\* bytes up to and including the empty line, nothing after it.
C1_NoBodyNothingPastTerminator ==
    \A c \in Conns :
        ( /\ Succeeded(c)
          /\ parse[c].retReq.Method \in {GET, HEAD}
          /\ HasHeader(parse[c].retReq, ContentLengthName, <<"1", "0", "0">>) )
        => /\ parse[c].retReq.Body = "nil"
           /\ consumed[c] = TerminatorEnd(Stream(c))

-----------------------------------------------------------------------------
\* The parser run on a stream that is at hand in one piece: the loop body
\* applied to the complete lines of s in turn, until the call ends or the
\* lines run out. pos is the position of the last byte taken.
RECURSIVE ParseWhole(_, _, _)
ParseWhole(st, s, pos) ==
    LET i == FirstLF(s, pos, Len(s))
    IN  IF st.status # "running" THEN [st |-> st, pos |-> pos]
        ELSE IF i = 0 THEN [st |-> ReadFailed(st), pos |-> Len(s)]
        ELSE ParseWhole(LoopBody(st, SubSeq(s, pos + 1, i)), s, i)

-----------------------------------------------------------------------------
Ended(c) == parse[c].status \in {"returned", "panic"}

\* Number of tokens single spaces split a line into.
Tokens(line) == Cardinality({i \in 1..Len(line) : line[i] = " "}) + 1

HasColon(line) == \E i \in 1..Len(line) : line[i] = ":"

\* C3: for a request with a body of Content-Length N whose N bytes follow
\* the empty line, the header parser takes no body byte, what Read delivers
\* is a prefix of those N bytes, and at end-of-data it is all of them.
C3_BodyIsBytesAfterTerminator ==
    \A c \in Conns :
        ( /\ Succeeded(c)
          /\ parse[c].retReq.Body = "limited"
          /\ parse[c].contentLength > 0
          /\ Len(Stream(c)) >= TerminatorEnd(Stream(c)) + parse[c].contentLength )
        => LET t    == TerminatorEnd(Stream(c))
               body == SubSeq(Stream(c), t + 1, t + parse[c].contentLength)
           IN  /\ lineStart[c] = t
               /\ Len(bodyOut[c]) <= Len(body)
               /\ bodyOut[c] = SubSeq(body, 1, Len(bodyOut[c]))
               /\ lastRead[c].err = "EOF" => bodyOut[c] = body

\* C4: once the header bytes accumulated pass the cap without an empty
\* line, the parser performs no further read of the transport.
C4_NoReadPastCap ==
    [][\A c \in Conns :
          ( /\ parse[c].status = "running"
            /\ ~parse[c].isHeaderComplete
            /\ delivered[c] > HeaderCap )
          => delivered'[c] = delivered[c]]_vars

\* C5: a first line that does not split into exactly three tokens ends the
\* call with an error: it neither panics nor returns a request.
C5_RequestLineThreeTokens ==
    \A c \in Conns :
        ( /\ Ended(c)
          /\ WireLines(Stream(c)) # <<>>
          /\ WireLines(Stream(c))[1] # CRLF
          /\ Tokens(WireLines(Stream(c))[1]) # 3 )
        => Returned(c) /\ parse[c].retErr # "nil"

\* C6: a header line without a colon, after a three-token request line and
\* before the empty line, ends the call with an error: no panic, no request.
C6_HeaderLineNeedsColon ==
    \A c \in Conns :
        ( /\ Ended(c)
          /\ LET ls == WireLines(Stream(c))
             IN  /\ ls # <<>>
                 /\ Tokens(ls[1]) = 3
                 /\ \E k \in 2..Len(ls) :
                        /\ ~HasColon(ls[k])
                        /\ \A j \in 1..k : ls[j] # CRLF )
        => Returned(c) /\ parse[c].retErr # "nil"

\* C7: a request returned without error has a non-empty method, target
\* and version.
C7_RequestLineFieldsNonEmpty ==
    \A c \in Conns :
        Succeeded(c) =>
            /\ parse[c].retReq.Method # <<>>
            /\ parse[c].retReq.URI # <<>>
            /\ parse[c].retReq.Version # <<>>

-----------------------------------------------------------------------------
\* x is white space up to position a and after position b, and its first
\* and last bytes in between, if any, are not white space.
TrimsTo(x, a, b) ==
    /\ \A i \in 1..Len(x) : (i <= a \/ i > b) => IsSpace(x[i])
    /\ a < b => ~IsSpace(x[a + 1]) /\ ~IsSpace(x[b])

\* t is x without the white space around it.
IsTrimOf(t, x) ==
    \E a \in 0..(Len(x) - Len(t)) :
        /\ t = SubSeq(x, a + 1, a + Len(t))
        /\ TrimsTo(x, a, a + Len(t))

\* n is x with every upper-case letter replaced by its lower-case letter.
IsLowerCaseOf(n, x) ==
    /\ Len(n) = Len(x)
    /\ \A i \in 1..Len(x) :
           \/ n[i] = x[i] /\ \A k \in 1..Len(UpperCase) : x[i] # UpperCase[k]
           \/ \E k \in 1..Len(UpperCase) : x[i] = UpperCase[k] /\ n[i] = LowerCase[k]

\* n is x without the white space around it, in lower case.
IsLowerCaseTrimOf(n, x) ==
    \E a \in 0..(Len(x) - Len(n)) :
        /\ IsLowerCaseOf(n, SubSeq(x, a + 1, a + Len(n)))
        /\ TrimsTo(x, a, a + Len(n))

\* The entry h is the header line split at its first colon: the name is
\* the part before it, trimmed and in lower case; the value is all that
\* follows it, later colons included, trimmed.
IsEntryOf(h, line) ==
    \E i \in 1..Len(line) :
        /\ line[i] = ":"
        /\ \A j \in 1..(i - 1) : line[j] # ":"
        /\ IsLowerCaseTrimOf(h.Name, SubSeq(line, 1, i - 1))
        /\ IsTrimOf(h.Value, SubSeq(line, i + 1, Len(line)))

C9_OneEntryPerHeaderLine ==
    \A c \in Conns :
        Succeeded(c) =>
            LET ls == WireLines(Stream(c))
                t  == TerminatorLine(Stream(c))
                hs == parse[c].retReq.Headers
            IN  /\ t >= 1
                /\ Len(hs) = IF t = 1 THEN 0 ELSE t - 2
                /\ \A k \in 1..Len(hs) : IsEntryOf(hs[k], ls[k + 1])

\* A returned request with two entries of the same name, in wire order.
C9_Witness ==
    \E c \in Conns :
        /\ Succeeded(c)
        /\ Len(parse[c].retReq.Headers) = 2
        /\ parse[c].retReq.Headers[1] =
               [Name |-> ContentLengthName, Value |-> <<"1", "0", "0">>]
        /\ parse[c].retReq.Headers[2] =
               [Name |-> ContentLengthName, Value |-> <<"3">>]

\* C10: on a stream that ends before an empty line, a call that returns
\* returns an error and the zero request, whatever it had parsed.
C10_EndOfStreamIsAnError ==
    \A c \in Conns :
        (Returned(c) /\ TerminatorLine(Stream(c)) = 0) =>
            /\ parse[c].retErr # "nil"
            /\ parse[c].retReq = ZeroReq

\* End of stream met after the request line and a header line were parsed.
C10_Witness ==
    \E c \in Conns :
        /\ Returned(c)
        /\ ~parse[c].isHeaderComplete
        /\ parse[c].retErr = "Something went wrong"
        /\ parse[c].httpReq.Method = GET
        /\ Len(parse[c].headerArr) = 1

-----------------------------------------------------------------------------
(* Body framing.                                                           *)

TransferEncodingName ==
    <<"t", "r", "a", "n", "s", "f", "e", "r", "-",
      "e", "n", "c", "o", "d", "i", "n", "g">>
ChunkedValue == <<"c", "h", "u", "n", "k", "e", "d">>

HexDigits == <<"0", "1", "2", "3", "4", "5", "6", "7", "8", "9",
               "a", "b", "c", "d", "e", "f">>

RECURSIVE HexValue(_)
HexValue(s) ==
    IF s = <<>> THEN 0
    ELSE 16 * HexValue(SubSeq(s, 1, Len(s) - 1))
         + (CHOOSE k \in 1..Len(HexDigits) : HexDigits[k] = s[Len(s)]) - 1

\* The sum of the chunk sizes of a chunked body s: each chunk is a size
\* line in hexadecimal, that many payload bytes and CRLF; size 0 ends it.
RECURSIVE ChunkPayloadTotal(_)
ChunkPayloadTotal(s) ==
    LET i    == FirstLF(s, 0, Len(s))
        size == HexValue(SubSeq(s, 1, i - 2))
    IN  IF i < 3 \/ size = 0 THEN 0
        ELSE size + ChunkPayloadTotal(SubSeq(s, i + size + 3, Len(s)))

\* What follows the header terminator of the stream of c.
AfterTerminator(c) ==
    SubSeq(Stream(c), TerminatorEnd(Stream(c)) + 1, Len(Stream(c)))

\* The values of the Content-Length entries of a header list, in order.
ContentLengths(headers) ==
    SelectSeq(headers, LAMBDA h : h.Name = ContentLengthName)

\* v is a non-negative decimal integer: one or more digits, nothing else.
IsNatural(v) == v # <<>> /\ \A i \in 1..Len(v) : IsDigit(v[i])

HasBody(c) == Succeeded(c) /\ parse[c].retReq.Method \notin {GET, HEAD}

\* C11: a request (with a body) that carries both Transfer-Encoding:
\* chunked and Content-Length, followed by a chunked body, has its body
\* delivered by the chunked strategy: never more bytes than the chunk
\* payloads sum to, and exactly that many once end-of-data is reported,
\* whatever the stated Content-Length is.
C11_ChunkedTakesPrecedence ==
    \A c \in Conns :
        ( /\ HasBody(c)
          /\ HasHeader(parse[c].retReq, TransferEncodingName, ChunkedValue)
          /\ ContentLengths(parse[c].retReq.Headers) # <<>>
          /\ AfterTerminator(c) = T_Chunks )
        => LET total == ChunkPayloadTotal(AfterTerminator(c))
           IN  /\ Len(bodyOut[c]) <= total
               /\ lastRead[c].err = "EOF" => Len(bodyOut[c]) = total

\* C12: a returned request that is not GET or HEAD and not chunked has a
\* bounded body reader. With Content-Length N (the name in any case, N a
\* decimal number) the reader starts with remaining = N: its remaining
\* count and the bytes it has handed out add up to N. Without a
\* Content-Length header the body has length zero: remaining is 0, nothing
\* is handed out and a Read reports end-of-data.
C12_ContentLengthSelectsBoundedBody ==
    \A c \in Conns :
        ( /\ HasBody(c)
          /\ ~HasHeader(parse[c].retReq, TransferEncodingName, ChunkedValue) )
        => LET cls == ContentLengths(parse[c].retReq.Headers)
           IN  /\ parse[c].retReq.Body = "limited"
               /\ cls = <<>> =>
                      /\ remaining[c] = 0
                      /\ bodyOut[c] = <<>>
                      /\ lastRead[c].err \in {"none", "EOF"}
               /\ \A v \in {cls[k].Value : k \in 1..Len(cls)} :
                      ( /\ IsNatural(v)
                        /\ \A k \in 1..Len(cls) : cls[k].Value = v )
                      => remaining[c] + Len(bodyOut[c]) = DecimalValue(v)

\* A body bounded by a Content-Length written in upper case, partly read;
\* and a body without Content-Length whose Read reported end-of-data.
C12_Witness ==
    \E c \in Conns :
        /\ HasBody(c)
        /\ \/ /\ input[c].hs = <<"contentLengthUpper">>
              /\ remaining[c] = 1 /\ Len(bodyOut[c]) = 2
           \/ /\ input[c].rl = "post" /\ input[c].hs = <<"spaced">>
              /\ lastRead[c].err = "EOF"

\* C13: a call that returns on a request with a Content-Length value that
\* is not a non-negative decimal integer returns an error and the zero
\* request, so no body reader.
C13_BadContentLengthIsAnError ==
    \A c \in Conns :
        ( /\ Returned(c)
          /\ parse[c].isHeaderComplete
          /\ \E k \in 1..Len(parse[c].headerArr) :
                 /\ parse[c].headerArr[k].Name = ContentLengthName
                 /\ ~IsNatural(parse[c].headerArr[k].Value) )
        => /\ parse[c].retErr # "nil"
           /\ parse[c].retReq = ZeroReq

\* C14: the remaining count of a body reader is never negative.
C14_RemainingNeverNegative ==
    \A c \in Conns : remaining[c] >= 0

\* What a Read call on the body of c may change.
ReadState(c) ==
    <<lastRead[c], delivered[c], consumed[c], remaining[c], bodyOut[c]>>

\* C15: Read on a bounded body reader. With remaining = 0 it reports
\* end-of-data and takes nothing from the stream; with remaining > 0 it
\* hands out the next n <= min(len(p), remaining) bytes of the shared
\* reader and lowers remaining by n. So the bytes handed out and remaining
\* always add up to the initial count, and after end-of-data was reported
\* every Read reports end-of-data.
C15_ReadIsBounded ==
    /\ [](\A c \in Conns :
            (Succeeded(c) /\ parse[c].retReq.Body = "limited"
                          /\ parse[c].contentLength >= 0)
            => /\ remaining[c] >= 0
               /\ remaining[c] + Len(bodyOut[c]) = parse[c].contentLength)
    /\ [][\A c \in Conns :
            (Succeeded(c) /\ parse[c].retReq.Body = "limited"
                          /\ remaining[c] >= 0
                          /\ ReadState(c)' # ReadState(c))
            => LET n == lastRead'[c].n
               IN  /\ remaining[c] = 0 =>
                          /\ lastRead'[c].err = "EOF" /\ n = 0
                          /\ delivered'[c] = delivered[c]
                          /\ consumed'[c] = consumed[c]
                          /\ bodyOut'[c] = bodyOut[c]
                   /\ remaining[c] > 0 =>
                          /\ n >= 0
                          /\ n <= lastRead'[c].len /\ n <= remaining[c]
                          /\ remaining'[c] = remaining[c] - n
                          /\ consumed'[c] = consumed[c] + n
                          /\ bodyOut'[c] = bodyOut[c] \o
                                 SubSeq(Stream(c), consumed[c] + 1, consumed[c] + n)
                   /\ lastRead[c].err = "EOF" => lastRead'[c].err = "EOF"]_vars

\* A body of three bytes read in calls of len(p) = 2 up to end-of-data,
\* with bytes of the stream left unread behind it.
C15_Witness ==
    \E c \in Conns :
        /\ Succeeded(c)
        /\ parse[c].contentLength = 3
        /\ Len(bodyOut[c]) = 3
        /\ lastRead[c] = [len |-> 2, n |-> 0, err |-> "EOF"]
        /\ consumed[c] < Len(Stream(c))

-----------------------------------------------------------------------------
(* The servers: closing, error responses, pipelining.                      *)

HttpPrograms == {"httpBufio", "httpConn"}

\* C16: a handler that has ended, by returning or by a panic, has closed
\* its connection.
C16_HandlerClosesConnection ==
    \A c \in ServerConns : Ended(c) => conn[c] = "closed"

\* The header block of s is malformed: a first line that is not three
\* tokens, a header line without colon, no empty line within the cap, or a
\* Content-Length that is not a number.
MalformedHeader(s) ==
    LET ls == WireLines(s)
        t  == TerminatorLine(s)
    IN  \/ ls # <<>> /\ Tokens(ls[1]) # 3
        \/ \E k \in 2..Len(ls) :
               /\ \A j \in 1..k : ls[j] # CRLF
               /\ \/ ~HasColon(ls[k])
                  \/ \E i \in 1..Len(ls[k]) :
                         /\ ls[k][i] = ":"
                         /\ ToLower(TrimSpace(SubSeq(ls[k], 1, i - 1)))
                                = ContentLengthName
                         /\ ~IsNatural(TrimSpace(SubSeq(ls[k], i + 1, Len(ls[k]))))
        \/ t = 0 /\ Len(s) > HeaderCap

\* bytes begins with the status line of a 400-class response.
IsErrorResponse(bytes) ==
    /\ Len(bytes) >= 12
    /\ SubSeq(bytes, 1, 10) = <<"H", "T", "T", "P", "/", "1", ".", "1", " ", "4">>

\* C17: when the handler of an HTTP server has ended on a request with a
\* malformed header, a 400-class response has been written to the
\* connection and the connection is closed.
C17_MalformedGets400AndClose ==
    \A c \in ServerConns :
        (prog \in HttpPrograms /\ Ended(c) /\ MalformedHeader(Stream(c)))
        => IsErrorResponse(out[c]) /\ conn[c] = "closed"

\* The requests the worker of connection c has parsed: the accept loop
\* starts one call of the parser per connection.
Parsed(c) == IF Succeeded(c) THEN <<parse[c].retReq>> ELSE <<>>

\* Number of status lines ("HTTP/1.1 ...") in bytes.
Responses(bytes) ==
    Cardinality({i \in 1..(Len(bytes) - 8) :
                    SubSeq(bytes, i, i + 8)
                        = <<"H", "T", "T", "P", "/", "1", ".", "1", " ">>})

PipelinedInput ==
    [rl |-> "get", hs |-> <<"host">>, end |-> "pipelined", cut |-> 0]

\* C18: when the worker of a connection that received the two pipelined
\* requests (GET /a, then GET /b with Connection: close) has ended, it has
\* parsed exactly these two requests in order, written two responses and
\* closed the connection.
C18_PipelinedRequestsServedInOrder ==
    \A c \in ServerConns :
        (prog \in HttpPrograms /\ input[c] = PipelinedInput /\ Ended(c))
        => /\ Len(Parsed(c)) = 2
           /\ Parsed(c)[1].URI = <<"/", "a">>
           /\ Parsed(c)[2].URI = <<"/", "b">>
           /\ Responses(out[c]) = 2
           /\ conn[c] = "closed"

-----------------------------------------------------------------------------
(* The servers: concurrency.                                               *)

BufioPrograms == {"httpBufio", "lineEcho"}

\* The handler of c waits in a read of the transport: it has used up what
\* the client has sent.
BlockedInRead(c) ==
    Running(c) /\ AtEnd(c) /\ (prog \in BufioPrograms => lf[c] = 0)

\* The handler of d has bytes to go on with.
HasWork(d) ==
    Running(d) /\ (~AtEnd(d) \/ (prog \in BufioPrograms /\ lf[d] # 0))

\* The handler of d can take a step. The two parser steps assign every
\* variable they change, so each is enabled exactly when its guard holds.
CanStep(d) ==
    \/ prog \in BufioPrograms /\ ENABLED Fill(d)
    \/ prog = "httpBufio" /\ HasLine(d)
    \/ ConnCanRead(d)
    \/ ENABLED LineEcho(d)
    \/ ENABLED EchoRead(d)
    \/ ENABLED EchoOnce(d)

\* C19: while the handler of one connection is blocked in a read, the
\* accept loop can accept any other client that has connected, and the
\* handler of any other connection that has bytes to go on with can take
\* its next step.
C19_BlockedHandlerBlocksNobody ==
    \A c \in ServerConns : \A d \in ServerConns \ {c} :
        (BlockedInRead(c) /\ ~Crashed)
        => /\ (Connected(d) /\ parse[d].status = "pending") => ENABLED Accept(d)
           /\ HasWork(d) => CanStep(d)

\* One handler is blocked in a read while the other has been accepted and
\* is part of the way through its stream.
C19_Witness ==
    \E c \in ServerConns : \E d \in ServerConns \ {c} :
        /\ BlockedInRead(c)
        /\ HasWork(d)
        /\ delivered[d] > 0

\* The bytes connection c has received so far.
Received(c) == SubSeq(Stream(c), 1, delivered[c])

\* The connection parser run on the bytes r received when it ended.
ConnParseWhole(r) ==
    LET idx == IndexTerminator(r, 1, Len(r))
        h   == ConnHeaderLines(InitParse, SubSeq(r, 1, idx - 1), 0)
        req == [h.httpReq EXCEPT !.Headers = h.headerArr]
    IN  IF Len(r) > ConnCap \/ idx = 0 THEN Return(InitParse, ZeroReq, "nil")
        ELSE IF h.status = "panic" THEN h
        ELSE Return([h EXCEPT !.httpReq = req], req, "nil")

\* What the line echo server writes for the bytes s it has taken: an echo
\* per line, up to the line "quit", which is answered with Bye.
RECURSIVE EchoOf(_)
EchoOf(s) ==
    LET i    == FirstLF(s, 0, Len(s))
        line == IF i = 0 THEN s ELSE SubSeq(s, 1, i)
    IN  IF s = <<>> THEN <<>>
        ELSE IF TrimRightLF(line) = QuitText THEN Bye
        ELSE EchoPrefix \o TrimRightLF(line) \o <<LF>>
             \o (IF i = 0 THEN <<>> ELSE EchoOf(SubSeq(s, i + 1, Len(s))))

\* C20: under every interleaving of the handlers of two connections, what
\* the handler of a connection has parsed and written is determined by the
\* bytes received on that connection alone: the parsers' outcome is the
\* parse of the bytes received, the line echo server has written the echo
\* of the lines it has taken, the echo server a prefix of what it has
\* received, the one-read server its buffer with the bytes received in
\* front.
C20_HandlersAreIsolated ==
    \A c \in ServerConns :
        /\ prog = "httpBufio" =>
               /\ out[c] = <<>>
               /\ Ended(c) => parse[c] = ParseWhole(InitParse, Received(c), 0).st
        /\ prog = "httpConn" =>
               /\ out[c] = <<>>
               /\ Ended(c) => parse[c] = ConnParseWhole(Received(c))
        /\ prog = "lineEcho" =>
               out[c] = EchoOf(SubSeq(Stream(c), 1, lineStart[c]))
        /\ prog = "echo" =>
               /\ Len(out[c]) <= delivered[c]
               /\ out[c] = SubSeq(Stream(c), 1, Len(out[c]))
        /\ prog = "echoOnce" =>
               out[c] = IF Ended(c)
                        THEN Received(c)
                             \o [i \in 1..(EchoBufSize - delivered[c]) |-> NUL]
                        ELSE <<>>

\* Two clients that send different streams are served at the same time,
\* and both handlers have written.
C20_Witness ==
    /\ input[1] # input[2]
    /\ \A c \in ServerConns : Running(c) /\ out[c] # <<>>
    /\ out[1] # out[2]

-----------------------------------------------------------------------------
(* The newline-delimited message server.                                   *)

\* The text of a complete message: the line without its final newline.
MessageText(line) == SubSeq(line, 1, Len(line) - 1)

\* What the protocol answers to the complete messages ls, in order: Bye to
\* the first quit and nothing after it, an echo to every other message.
RECURSIVE Replies(_)
Replies(ls) ==
    IF ls = <<>> THEN <<>>
    ELSE IF MessageText(Head(ls)) = QuitText THEN Bye
    ELSE EchoPrefix \o MessageText(Head(ls)) \o <<LF>> \o Replies(Tail(ls))

HasQuit(ls) == \E k \in 1..Len(ls) : MessageText(ls[k]) = QuitText

IsPrefix(p, s) == Len(p) <= Len(s) /\ SubSeq(s, 1, Len(p)) = p

\* C21: the message server has answered the complete messages it has taken
\* so far with Bye for the first quit and an echo for every other message;
\* after a quit it has written nothing more and has closed the connection.
C21_QuitOrEcho ==
    \A c \in ServerConns :
        prog = "lineEcho" =>
            /\ Running(c) =>
                  out[c] = Replies(WireLines(SubSeq(Stream(c), 1, lineStart[c])))
            /\ Ended(c) =>
                  /\ IsPrefix(Replies(WireLines(Stream(c))), out[c])
                  /\ HasQuit(WireLines(Stream(c))) =>
                        /\ out[c] = Replies(WireLines(Stream(c)))
                        /\ conn[c] = "closed"

\* The server has answered hi and then quit, and left the later hi alone.
C21_Witness ==
    \E c \in ServerConns :
        /\ prog = "lineEcho"
        /\ Ended(c)
        /\ Stream(c) = M_Hi \o M_Quit \o M_Hi
        /\ out[c] = EchoPrefix \o <<"h", "i", LF>> \o Bye
        /\ conn[c] = "closed"

\* Number of newlines of s: of complete messages, or of replies.
Newlines(s) == Cardinality({i \in 1..Len(s) : s[i] = LF})

\* C22: the message server has written one reply per message it has taken,
\* a message already buffered is the next line without another read, and
\* two connections that were sent the same bytes have, however the reads cut
\* them, been answered with the same replies once their handlers ended.
C22_RepliesIndependentOfFragmentation ==
    /\ \A c \in ServerConns :
          (prog = "lineEcho" /\ Running(c)) =>
              /\ Newlines(out[c])
                    = Newlines(SubSeq(Stream(c), 1, lineStart[c]))
              /\ lf[c] = FirstLF(Stream(c), lineStart[c], delivered[c])
    /\ \A c, d \in ServerConns :
          (prog = "lineEcho" /\ input[c] = input[d] /\ Ended(c) /\ Ended(d))
          => out[c] = out[d]

\* The same three messages reached one handler byte by byte, which stopped
\* at the quit, and the other in one read, and both got the same replies.
C22_Witness ==
    \E c, d \in ServerConns :
        /\ prog = "lineEcho"
        /\ Stream(c) = M_Hi \o M_Quit \o M_Hi
        /\ input[d] = input[c]
        /\ Ended(c) /\ Ended(d)
        /\ delivered[c] = Len(M_Hi \o M_Quit)
        /\ delivered[d] = Len(Stream(d))
        /\ out[c] = out[d]

\* The bytes of s after its last complete message.
Tail_Partial(s) ==
    LET at == {i \in 1..Len(s) : s[i] = LF}
    IN  SubSeq(s, (IF at = {} THEN 0 ELSE Max(at)) + 1, Len(s))

\* C23: when the stream of the message server ended in the middle of a
\* message that no quit came before, the handler has ended with the
\* connection closed and has written the replies to the complete messages
\* and nothing for the unfinished one.
C23_PartialMessageIsNotAnswered ==
    \A c \in ServerConns :
        ( /\ prog = "lineEcho"
          /\ Ended(c)
          /\ Tail_Partial(Stream(c)) # <<>>
          /\ ~HasQuit(WireLines(Stream(c))) )
        => /\ out[c] = Replies(WireLines(Stream(c)))
           /\ conn[c] = "closed"

-----------------------------------------------------------------------------
(* The echo servers.                                                       *)

EchoPrograms == {"echo", "echoOnce"}

\* C24: an echo server has written on each connection the bytes it has
\* read from it, the same bytes in the same order and no others; only the
\* single q that ended the handler is not written back.
C24_EchoWritesWhatItRead ==
    \A c \in ServerConns :
        (prog \in EchoPrograms /\ parse[c].status # "pending")
        => \/ out[c] = Received(c)
           \/ Ended(c) /\ Received(c) = out[c] \o M_Q

\* C25: when a read of handleConnection returns exactly the byte q, the
\* connection is closed and the q is not written back; nothing is written
\* on a connection after it was closed.
C25_QuitChunkClosesWithoutEcho ==
    /\ [][\A c \in ServerConns :
            ( /\ prog = "echo"
              /\ Running(c)
              /\ delivered'[c] > delivered[c]
              /\ SubSeq(Stream(c), delivered[c] + 1, delivered'[c]) = M_Q )
            => (conn'[c] = "closed" /\ out'[c] = out[c])]_vars
    /\ [][\A c \in ServerConns :
            (prog = "echo" /\ conn[c] = "closed") => out'[c] = out[c]]_vars

\* The handler has echoed hi and a newline, then read the q of quit alone
\* and closed with the rest of the stream unread.
C25_Witness ==
    \E c \in ServerConns :
        /\ prog = "echo"
        /\ conn[c] = "closed"
        /\ out[c] = M_Hi
        /\ Received(c) = M_Hi \o M_Q
        /\ ~AtEnd(c)

-----------------------------------------------------------------------------
(* The message server: the size of a message.                              *)

\* The largest message of the protocol (4KB).
MessageCap == 4096

\* C26: when the message server has accumulated MessageCap bytes of one
\* message and no newline among them, it has closed the connection.
C26_MessageSizeIsCapped ==
    \A c \in ServerConns :
        ( /\ prog = "lineEcho"
          /\ parse[c].status # "pending"
          /\ delivered[c] - lineStart[c] >= MessageCap
          /\ FirstLF(Stream(c), lineStart[c], delivered[c]) = 0 )
        => conn[c] = "closed"

-----------------------------------------------------------------------------
(* The HTTP servers: persistent connections.                               *)

ConnectionName == <<"c", "o", "n", "n", "e", "c", "t", "i", "o", "n">>
CloseValue     == <<"c", "l", "o", "s", "e">>
KeepAliveValue == <<"k", "e", "e", "p", "-", "a", "l", "i", "v", "e">>
Version11      == <<"H", "T", "T", "P", "/", "1", ".", "1">>

\* The request has a Connection header of value v, in any case.
ConnectionIs(req, v) ==
    \E k \in 1..Len(req.Headers) :
        /\ ToLower(req.Headers[k].Name) = ConnectionName
        /\ ToLower(req.Headers[k].Value) = v

\* The persistence policy: the connection is closed after this request.
MustClose(req) ==
    \/ ConnectionIs(req, CloseValue)
    \/ req.Version # Version11 /\ ~ConnectionIs(req, KeepAliveValue)

\* C27: when the worker of a connection has stopped after a GET request,
\* the connection is closed if the request forces that, and the worker has
\* not stopped after a request that leaves the connection open while bytes
\* of a next request are in the stream.
C27_PersistencePolicy ==
    \A c \in ServerConns :
        ( /\ prog \in HttpPrograms
          /\ Succeeded(c)
          /\ parse[c].retReq.Method = GET )
        => /\ MustClose(parse[c].retReq) => conn[c] = "closed"
           /\ ~MustClose(parse[c].retReq) => AfterTerminator(c) = <<>>

\* C28: when the worker of a connection has stopped after a request with a
\* body, the body reader has been read to its end and the shared reader
\* stands at the first byte after the body.
C28_BodyIsDrained ==
    \A c \in ServerConns :
        ( /\ prog = "httpBufio"
          /\ Succeeded(c)
          /\ parse[c].retReq.Body = "limited" )
        => /\ remaining[c] = 0
           /\ consumed[c] = TerminatorEnd(Stream(c)) + parse[c].contentLength

-----------------------------------------------------------------------------
(* The duplex messenger.                                                   *)

\* The messages the producers have enqueued so far.
Enqueued == UNION {{Msg(p, k) : k \in 1..produced[p]} : p \in Producers}

Queued == {sendChan[i] : i \in 1..Len(sendChan)}

\* The data frames among the frames a byte stream decodes into.
DataFrames(bytes) ==
    SelectSeq(DecodeFrames(bytes).frames, LAMBDA f : f.op = OpText)

\* C29: the bytes on the transport always decode as frames, and whenever
\* the write task is not inside a frame they decode, with nothing left
\* over, into exactly the messages the producers have enqueued and the
\* write task has taken, each once: as many data frames as messages.
C29_FramesAreNotInterleaved ==
    /\ DecodeFrames(wire).ok
    /\ pending = <<>> =>
          /\ DecodeFrames(wire).rest = <<>>
          /\ Len(DataFrames(wire)) = Cardinality(Enqueued) - Len(sendChan)
          /\ {DataFrames(wire)[i] : i \in 1..Len(DataFrames(wire))}
                = Enqueued \ Queued

\* Every producer has enqueued all its messages, the write task has
\* written them all, and the first two frames on the transport come from
\* different producers.
C29_Witness ==
    /\ \A p \in Producers : produced[p] = MsgsPerProducer
    /\ sendChan = <<>>
    /\ pending = <<>>
    /\ Len(DataFrames(wire)) = NumProducers * MsgsPerProducer
    /\ DataFrames(wire)[1].payload[1] \div 10
         # DataFrames(wire)[2].payload[1] \div 10

\* The frames on the transport end with the one close frame among them.
EndsWithClose(bytes) ==
    LET d == DecodeFrames(bytes)
    IN  /\ d.ok /\ d.rest = <<>>
        /\ d.frames # <<>>
        /\ \A i \in 1..Len(d.frames) :
               d.frames[i].op = OpClose <=> i = Len(d.frames)

\* C30: the read task stops exactly by closing the inbound channel and
\* telling the write task, which then sends a close frame and stops; a
\* write task that has stopped has written a close frame last and writes
\* nothing more; when it stopped on the shutdown of the application alone,
\* the outbound channel was closed and every message enqueued is on the
\* transport before the close frame; and after either signal the write
\* task does stop.
C30_MessengerTermination ==
    /\ [](reader = "stopped" <=> recvClosed)
    /\ [](reader = "stopped" => closeReq)
    /\ [](writer = "stopped" => EndsWithClose(wire))
    /\ []((writer = "stopped" /\ ~closeReq)
            => /\ sendClosed
               /\ sendChan = <<>>
               /\ {DataFrames(wire)[i] : i \in 1..Len(DataFrames(wire))}
                     = Enqueued)
    /\ [][writer = "stopped" => wire' = wire]_vars
    /\ (closeReq ~> writer = "stopped")
    /\ (sendClosed ~> writer = "stopped")

\* The peer has closed: the read task has stopped and closed the inbound
\* channel, and the write task, with the outbound channel still open, has
\* written messages, then its close frame, and stopped.
C30_Witness ==
    /\ reader = "stopped"
    /\ recvClosed
    /\ ~sendClosed
    /\ writer = "stopped"
    /\ Len(DataFrames(wire)) >= 1
    /\ EndsWithClose(wire)

-----------------------------------------------------------------------------
(* The parser over the bufio.Reader: the end of the header block.          *)

\* C31: once the parser has read the empty line that ends the header block
\* it has returned, without another read; for a GET or HEAD request it has
\* returned the request and no error, whatever follows on the connection.
C31_ReturnsAtEmptyLine ==
    \A c \in Conns :
        parse[c].isHeaderComplete
        => /\ parse[c].status = "returned"
           /\ parse[c].httpReq.Method \in {GET, HEAD} => parse[c].retErr = "nil"

-----------------------------------------------------------------------------
(* The parser that reads the connection.                                   *)

\* C32: when the connection parser has returned on a stream whose header
\* block is well formed and within the limit, the request has the method,
\* URI and version of the request line and one entry in Headers for every
\* line between the request line and the empty line.
C32_EveryHeaderLineParsed ==
    \A c \in ServerConns :
        ( /\ prog = "httpConn"
          /\ Returned(c)
          /\ TerminatorLine(Stream(c)) # 0
          /\ ~MalformedHeader(Stream(c)) )
        => LET ls == WireLines(Stream(c))
               rl == Split(ls[1], " ")
           IN  /\ parse[c].retReq.Method = TrimSpace(rl[1])
               /\ parse[c].retReq.URI = TrimSpace(rl[2])
               /\ parse[c].retReq.Version = TrimSpace(rl[3])
               /\ Len(parse[c].retReq.Headers) = TerminatorLine(Stream(c)) - 2

\* C33: when the connection parser has returned on a stream whose header
\* block is well formed and ends within the limit, it has returned the
\* request of that header block, whatever follows the block and however
\* the reads cut the stream; it has returned the empty request when the
\* block passes the limit.
C33_LimitCountsHeaderBlockOnly ==
    \A c \in ServerConns :
        ( /\ prog = "httpConn"
          /\ Returned(c)
          /\ TerminatorLine(Stream(c)) >= 3
          /\ ~MalformedHeader(Stream(c)) )
        => IF TerminatorEnd(Stream(c)) <= ConnCap
           THEN parse[c].retReq.Method = TrimSpace(Split(WireLines(Stream(c))[1], " ")[1])
           ELSE parse[c].retReq = ZeroReq

-----------------------------------------------------------------------------
(* The parser over the bufio.Reader: several Content-Length headers.       *)

\* v is a decimal integer, with or without a sign.
IsInteger(v) ==
    \/ IsNatural(v)
    \/ Len(v) >= 2 /\ v[1] \in {"+", "-"} /\ IsNatural(Tail(v))

\* C34: when the parser has dealt with the headers of a request that is
\* not GET or HEAD and has several Content-Length headers, it has returned
\* an error if one of the values is not a number, and otherwise a body
\* bounded by the value of the last of them.
C34_LastContentLengthWins ==
    \A c \in Conns :
        LET cls == ContentLengths(parse[c].httpReq.Headers)
        IN  ( /\ Returned(c)
              /\ parse[c].isHeaderComplete
              /\ parse[c].retErr \in {"nil", "An error occurred"}
              /\ parse[c].httpReq.Method \notin {GET, HEAD}
              /\ Len(cls) >= 2 )
            => IF \E k \in 1..Len(cls) : ~IsInteger(cls[k].Value)
               THEN parse[c].retErr # "nil" /\ parse[c].retReq = ZeroReq
               ELSE /\ parse[c].retErr = "nil"
                    /\ parse[c].retReq.Body = "limited"
                    /\ IsNatural(cls[Len(cls)].Value) =>
                          remaining[c] + Len(bodyOut[c])
                              = DecimalValue(cls[Len(cls)].Value)

\* A request with Content-Length: 100 and then Content-Length: 3 has a body
\* of three bytes, and one with a length that is not a number after a good
\* one has failed.
C34_Witness ==
    \E c \in Conns :
        LET cls == ContentLengths(parse[c].httpReq.Headers)
        IN  /\ Returned(c)
            /\ parse[c].httpReq.Method \notin {GET, HEAD}
            /\ Len(cls) = 2
            /\ cls[1].Value = <<"1", "0", "0">>
            /\ cls[2].Value = <<"3">>
            /\ parse[c].retErr = "nil"
            /\ remaining[c] + Len(bodyOut[c]) = 3
            /\ bodyOut[c] # <<>>

-----------------------------------------------------------------------------
(* The bounded body reader at the end of the stream.                       *)

\* C35: end-of-data has only been reported by a body reader whose
\* remaining count is 0; and a Read with remaining > 0 that finds the
\* stream at its end (or failing) with nothing buffered reports an error
\* that is not end-of-data, hands out no byte and leaves remaining as it
\* was.
C35_TruncatedBodyIsAnError ==
    /\ [](\A c \in Conns : lastRead[c].err = "EOF" => remaining[c] = 0)
    /\ [][\A c \in Conns :
            ( /\ Succeeded(c)
              /\ parse[c].retReq.Body = "limited"
              /\ remaining[c] > 0
              /\ Buffered(c) = 0
              /\ AtEnd(c)
              /\ lastRead'[c] # lastRead[c] )
            => /\ lastRead'[c].err = "error"
               /\ lastRead'[c].n = 0
               /\ remaining'[c] = remaining[c]
               /\ bodyOut'[c] = bodyOut[c]]_vars

\* A body cut short by the end of the stream: part of it has been handed
\* out, more is still due, and the last Read reported the error.
C35_Witness ==
    \E c \in Conns :
        /\ Succeeded(c)
        /\ parse[c].retReq.Body = "limited"
        /\ bodyOut[c] # <<>>
        /\ remaining[c] > 0
        /\ AtEnd(c)
        /\ lastRead[c].err = "error"
        /\ lastRead[c].n = 0

=============================================================================
